---- MODULE Spec2Model ----
(***************************************************************************)
(* Model of the turn-taking conversation engine of ai-chatbot-conversation *)
(* (src/chatbot_conversation.py, class ChatbotConversation).               *)
(*                                                                         *)
(* A session holds two provider references and the retained                *)
(* conversation_history.  run_conversation seeds the working dialogue      *)
(* (messages) and the log (conversation_log), then repeats num_turns       *)
(* times: sleep, chatbot 2 answers the role-reversed dialogue, sleep,      *)
(* chatbot 1 answers the dialogue as stored.  Each adapter call goes       *)
(* through get_chatbot_response, which turns a raised Exception into an    *)
(* error string.                                                           *)
(*                                                                         *)
(* The adapters are the environment: a call returns some text or raises    *)
(* an Exception with some reason (the class the engine's `except           *)
(* Exception` guards).  `calls` is a history variable: the list of the     *)
(* adapter invocations of the current run with the arguments they got.     *)
(*                                                                         *)
(* Specifications: Spec (one run), SpecRerun (runs repeated on a session), *)
(* SpecHang (a call may never return; fair steps), SpecAbort (the pause    *)
(* may raise), SpecSave and SpecFrame (save_conversation, the transcript   *)
(* reader of src/perform.py, direct get_chatbot_response calls),           *)
(* SpecAdapters and SpecGemini (the adapter classes of src/providers.py    *)
(* and src/chatbot_conversation.py), SpecVoices (the reader's voices).     *)
(***************************************************************************)
EXTENDS Integers, Sequences, FiniteSets, TLC

VARIABLES
    pc,                   \* position of run_conversation
    provider1,            \* self.provider1: an adapter instance
    provider2,            \* self.provider2: an adapter instance
    provider2_arg,        \* history: the provider2 argument of __init__
    conversation_history, \* self.conversation_history
    initial_prompt,       \* arguments of run_conversation
    chatbot1_system,
    chatbot2_system,
    num_turns,
    delay,
    verbose,
    turn,                 \* loop variable of `for turn in range(num_turns)`
    messages,             \* local: the working dialogue
    conversation_log,     \* local: the turn-record log
    call_count,           \* per adapter instance: calls it has seen
    calls,                \* history: adapter invocations of this run
    sleeps,               \* history: completed time.sleep(delay) calls
    returned,             \* the value run_conversation returned
    runs,                 \* history: calls of run_conversation so far
    file,                 \* the transcript file: its text, or NoValue
    file_saved,           \* history: save_conversation wrote the file
    performed,            \* blocks perform_transcript played, or NoValue
    performed_file,       \* history: the text perform_transcript read
    environ,              \* os.environ: name -> string, or NoValue
    adapter_object,       \* the adapter object constructed, or NoValue
    adapter_error,        \* the exception the constructor raised, or NoValue
    request,              \* what get_response sends to the backend
    reply,                \* what get_response gave its caller
    config_voice_map,     \* perform_transcript: the configured voices
    dynamic_voice_map,    \* perform_transcript: voices assigned on the fly
    next_voice_index,     \* perform_transcript: the next dynamic slot
    first_seen,           \* history: unlisted speakers, by first appearance
    voiced                \* history: the last block's speaker and voice

vars == <<pc, provider1, provider2, conversation_history, initial_prompt,
          chatbot1_system, chatbot2_system, num_turns, delay, verbose, turn,
          messages, conversation_log, call_count, calls, sleeps, returned,
          provider2_arg, runs, file, file_saved, performed,
          performed_file, environ, adapter_object, adapter_error, request,
          reply,
          config_voice_map, dynamic_voice_map, next_voice_index, first_seen,
          voiced>>

session == <<provider1, provider2, provider2_arg, runs>>
storage == <<file, file_saved, performed, performed_file>>
adapters == <<environ, adapter_object, adapter_error, request, reply>>
playback == <<config_voice_map, dynamic_voice_map, next_voice_index,
              first_seen, voiced>>
args == <<initial_prompt, chatbot1_system, chatbot2_system, num_turns, delay,
          verbose>>

(***************************************************************************)
(* Bounds and input sets.                                                  *)
(***************************************************************************)
MaxTurns == 2
MaxRuns == 2        \* runs on one session, where runs are repeated
RerunMaxTurns == 1  \* num_turns of those runs

Instances == {"PA", "PB"}
Prompts == {"Hello", "Indeed."}
SystemPrompts == {"You are A", "You are B"}
Delays == {0, 1}
NoValue == "none"

\* The environment variables the adapters read.
EnvPrefixes == {"OPENAI", "ANTHROPIC", "OLLAMA", "XAI", "GEMINI"}
EnvNames ==
    {"DEFAULT_TEMPERATURE", "DEFAULT_MAX_TOKENS"} \cup
    {prefix \o suffix : prefix \in EnvPrefixes,
                        suffix \in {"_API_KEY", "_TEMPERATURE", "_MAX_TOKENS"}}
EmptyEnviron == [name \in EnvNames |-> NoValue]

\* The value of a record-valued variable that holds no record yet.
Nothing == [nothing |-> TRUE]

\* No adapter has been constructed and nothing is set in the environment.
NoAdapters ==
    /\ environ = EmptyEnviron
    /\ adapter_object = Nothing
    /\ adapter_error = Nothing
    /\ request = Nothing
    /\ reply = Nothing

\* No transcript is being played.
NoPlayback ==
    /\ config_voice_map = <<>>
    /\ dynamic_voice_map = <<>>
    /\ next_voice_index = 0
    /\ first_seen = <<>>
    /\ voiced = Nothing

(***************************************************************************)
(* ChatProvider.get_response is abstract: an adapter instance may return   *)
(* any text or raise.  The t-th call seen by an instance returns a text    *)
(* naming the instance and t ("PA1", "PB2", ...), or a text both instances *)
(* and the prompt can produce, or raises with a reason.                    *)
(***************************************************************************)
AdapterOutcomes(p, t) ==
    { [raised |-> FALSE, text |-> p \o ToString(t)],
      [raised |-> FALSE, text |-> "Indeed."],
      [raised |-> TRUE,  text |-> "timeout"] }

(***************************************************************************)
(* __init__: provider2 or provider1.                                       *)
(***************************************************************************)
\* Mutant: an omitted provider2 becomes an adapter of its own.
DefaultProvider2_Separate(p1, p2) == IF p2 = NoValue THEN "PB" ELSE p2

DefaultProvider2(p1, p2) == IF p2 = NoValue THEN p1 ELSE p2

(***************************************************************************)
(* get_chatbot_response: one call of provider.get_response; an Exception   *)
(* becomes the error string.  `invocations` lists the adapter calls made.  *)
(***************************************************************************)
ErrorString(chatbot_name, reason) ==
    "Error getting response from " \o chatbot_name \o ": " \o reason

\* Mutant: the error string names no participant.
get_chatbot_response_Anonymous(provider, chatbot_name, system_prompt, msgs, outcome) ==
    [ response |-> IF outcome.raised
                   THEN ErrorString("Chatbot", outcome.text)
                   ELSE outcome.text,
      invocations |-> << [ provider |-> provider,
                           chatbot_name |-> chatbot_name,
                           system_prompt |-> system_prompt,
                           messages |-> msgs,
                           outcome |-> outcome ] >> ]

\* Mutant: a call that raised is attempted once more.
get_chatbot_response_Retry(provider, chatbot_name, system_prompt, msgs, outcome) ==
    LET call == [ provider |-> provider,
                  chatbot_name |-> chatbot_name,
                  system_prompt |-> system_prompt,
                  messages |-> msgs,
                  outcome |-> outcome ]
    IN  [ response |-> IF outcome.raised
                       THEN ErrorString(chatbot_name, outcome.text)
                       ELSE outcome.text,
          invocations |-> IF outcome.raised THEN <<call, call>> ELSE <<call>> ]

get_chatbot_response(provider, chatbot_name, system_prompt, msgs, outcome) ==
    [ response |-> IF outcome.raised
                   THEN ErrorString(chatbot_name, outcome.text)
                   ELSE outcome.text,
      invocations |-> << [ provider |-> provider,
                           chatbot_name |-> chatbot_name,
                           system_prompt |-> system_prompt,
                           messages |-> msgs,
                           outcome |-> outcome ] >> ]

(***************************************************************************)
(* Pieces of run_conversation.                                             *)
(***************************************************************************)
\* Mutant: the seed is stored as the other side's message.
SeedMessage_AsUser(prompt) == [role |-> "user", content |-> prompt]

SeedMessage(prompt) == [role |-> "assistant", content |-> prompt]

\* Mutant: the seed goes to the log only, the dialogue starts empty.
SeedDialogue_LogOnly(prompt) == <<>>

SeedDialogue(prompt) == Append(<<>>, SeedMessage(prompt))

\* Mutant: the log of a run continues the retained history.
NewLog_Retained(history) == history

\* conversation_log = []: a run's log starts empty whatever is retained.
NewLog(history) == <<>>

\* Mutant: a record is inserted at the front of the log.
AppendRecord_Front(log, record) == <<record>> \o log

AppendRecord(log, record) == Append(log, record)

\* Mutant: pacing is skipped when the delay is zero.
time_sleep_SkipZero(done, d) == IF d = 0 THEN done ELSE done + 1

\* time.sleep(delay) with delay >= 0: one more completed suspension.
time_sleep(done, d) == done + 1

\* Mutant: the retained history leaves out the seed record.
RetainedHistory_NoSeed(log) == Tail(log)

\* self.conversation_history = conversation_log
RetainedHistory(log) == log

\* Mutant: the seed record carries a decorated prompt.
SeedRecord_Decorated(prompt) ==
    [turn |-> 0, speaker |-> "Chatbot 1 (Initial)",
     message |-> "Prompt: " \o prompt]

SeedRecord(prompt) ==
    [turn |-> 0, speaker |-> "Chatbot 1 (Initial)", message |-> prompt]

\* Mutant: the loop runs once more than num_turns.
LoopContinues_OffByOne(t, n) == t <= n

LoopContinues(t, n) == t < n

\* Mutant: only 'assistant' is relabelled.
ReverseRole_OneWay(role) == IF role = "assistant" THEN "user" ELSE role

ReverseRole(role) == IF role = "assistant" THEN "user" ELSE "assistant"

\* Mutant: chatbot 2 gets the dialogue as stored.
ReverseRoles_AsStored(msgs) == msgs

ReverseRoles(msgs) ==
    [i \in 1..Len(msgs) |->
        [role |-> ReverseRole(msgs[i].role), content |-> msgs[i].content]]

\* Mutant: chatbot 2's response is stored under the seed's role.
Chatbot2Message_AsAssistant(response2) ==
    [role |-> "assistant", content |-> response2]

Chatbot2Message(response2) == [role |-> "user", content |-> response2]

\* Mutant: chatbot 2's record is attributed to chatbot 1.
Chatbot2Record_WrongSpeaker(t, response2) ==
    [turn |-> t + 1, speaker |-> "Chatbot 1", message |-> response2]

Chatbot2Record(t, response2) ==
    [turn |-> t + 1, speaker |-> "Chatbot 2", message |-> response2]

\* Mutant: chatbot 1 gets only the latest message.
Chatbot1View_LastOnly(msgs) == <<msgs[Len(msgs)]>>

\* Mutant: the role prompt is put in front of the message list.
Chatbot1View_WithSystem(msgs) ==
    <<[role |-> "system", content |-> "You are A"]>> \o msgs

\* Mutant: chatbot 1 gets the reversed dialogue too.
Chatbot1View_Reversed(msgs) == ReverseRoles(msgs)

Chatbot1View(msgs) == msgs

\* Mutant: chatbot 1's response is stored with the other participant's tag.
Chatbot1Message_AsUser(response1) == [role |-> "user", content |-> response1]

Chatbot1Message(response1) == [role |-> "assistant", content |-> response1]

\* Mutant: chatbot 1's record carries the loop variable, not turn + 1.
Chatbot1Record_LoopVariable(t, response1) ==
    [turn |-> t, speaker |-> "Chatbot 1", message |-> response1]

Chatbot1Record(t, response1) ==
    [turn |-> t + 1, speaker |-> "Chatbot 1", message |-> response1]

(***************************************************************************)
(* State after construction of the session.                                *)
(***************************************************************************)
Init ==
    /\ pc = "idle"
    /\ provider1 = "PA"
    /\ \E p2 \in {NoValue, "PB"} :
        /\ provider2_arg = p2
        /\ provider2 = DefaultProvider2("PA", p2)
    /\ conversation_history = <<>>
    /\ initial_prompt = NoValue
    /\ chatbot1_system = NoValue
    /\ chatbot2_system = NoValue
    /\ num_turns = 0
    /\ delay = 0
    /\ verbose = FALSE
    /\ turn = 0
    /\ messages = <<>>
    /\ conversation_log = <<>>
    /\ call_count = [p \in Instances |-> 0]
    /\ calls = <<>>
    /\ sleeps = 0
    /\ returned = NoValue
    /\ runs = 0
    /\ file = NoValue
    /\ file_saved = FALSE
    /\ performed = NoValue
    /\ performed_file = NoValue
    /\ NoAdapters
    /\ NoPlayback

(***************************************************************************)
(* run_conversation, entry to the loop head: the seed message and record.  *)
(***************************************************************************)
StartRun(ip, s1, s2, n, d, v) ==
    /\ initial_prompt' = ip
    /\ chatbot1_system' = s1
    /\ chatbot2_system' = s2
    /\ num_turns' = n
    /\ delay' = d
    /\ verbose' = v
    /\ messages' = SeedDialogue(ip)
    /\ conversation_log' =
           AppendRecord(NewLog(conversation_history), SeedRecord(ip))
    /\ turn' = 0
    /\ pc' = IF LoopContinues(0, n) THEN "sleep2" ELSE "return"
    /\ runs' = runs + 1
    /\ calls' = <<>>
    /\ sleeps' = 0
    /\ UNCHANGED <<adapters, playback,
                   provider1, provider2, provider2_arg, conversation_history,
                   call_count, returned, storage>>

RunConversation ==
    /\ pc = "idle"
    /\ \E ip \in Prompts, s1 \in SystemPrompts, s2 \in SystemPrompts,
          n \in 0..MaxTurns, d \in Delays, v \in BOOLEAN :
        StartRun(ip, s1, s2, n, d, v)

(***************************************************************************)
(* time.sleep(delay) before chatbot 2's call.  It completes for a delay    *)
(* >= 0 (time.sleep raises ValueError for a negative one).                 *)
(***************************************************************************)
\* Mutant: a delay of 0 skips chatbot 2's step with the pause.
SleepBeforeChatbot2_SkipsStep ==
    /\ pc = "sleep2"
    /\ delay >= 0
    /\ sleeps' = time_sleep(sleeps, delay)
    /\ pc' = IF delay = 0 THEN "sleep1" ELSE "call2"
    /\ UNCHANGED <<adapters, playback,
                   session, storage, args, conversation_history, turn, messages,
                   conversation_log, call_count, calls, returned>>

SleepBeforeChatbot2 ==
    /\ pc = "sleep2"
    /\ delay >= 0
    /\ sleeps' = time_sleep(sleeps, delay)
    /\ pc' = "call2"
    /\ UNCHANGED <<adapters, playback,
                   session, storage, args, conversation_history, turn, messages,
                   conversation_log, call_count, calls, returned>>

(***************************************************************************)
(* Chatbot 2 responds: reversed view, guarded adapter call, append.        *)
(***************************************************************************)
Chatbot2Responds ==
    /\ pc = "call2"
    /\ \E outcome \in AdapterOutcomes(provider2, call_count[provider2] + 1) :
        LET r == get_chatbot_response(provider2, "Chatbot 2", chatbot2_system,
                                      ReverseRoles(messages), outcome)
        IN  /\ calls' = calls \o r.invocations
            /\ call_count' = [call_count EXCEPT
                                ![provider2] = @ + Len(r.invocations)]
            /\ messages' = Append(messages, Chatbot2Message(r.response))
            /\ conversation_log' =
                   AppendRecord(conversation_log,
                                Chatbot2Record(turn, r.response))
    /\ pc' = "sleep1"
    /\ UNCHANGED <<adapters, playback,
                   session, storage, args, conversation_history, turn, sleeps,
                   returned>>

(***************************************************************************)
(* time.sleep(delay) before chatbot 1's call.                              *)
(***************************************************************************)
SleepBeforeChatbot1 ==
    /\ pc = "sleep1"
    /\ delay >= 0
    /\ sleeps' = time_sleep(sleeps, delay)
    /\ pc' = "call1"
    /\ UNCHANGED <<adapters, playback,
                   session, storage, args, conversation_history, turn, messages,
                   conversation_log, call_count, calls, returned>>

(***************************************************************************)
(* Chatbot 1 responds: dialogue as stored, guarded adapter call, append,   *)
(* then the loop head.                                                     *)
(***************************************************************************)
Chatbot1Responds ==
    /\ pc = "call1"
    /\ \E outcome \in AdapterOutcomes(provider1, call_count[provider1] + 1) :
        LET r == get_chatbot_response(provider1, "Chatbot 1", chatbot1_system,
                                      Chatbot1View(messages), outcome)
        IN  /\ calls' = calls \o r.invocations
            /\ call_count' = [call_count EXCEPT
                                ![provider1] = @ + Len(r.invocations)]
            /\ messages' = Append(messages, Chatbot1Message(r.response))
            /\ conversation_log' =
                   AppendRecord(conversation_log,
                                Chatbot1Record(turn, r.response))
    /\ turn' = turn + 1
    /\ pc' = IF LoopContinues(turn + 1, num_turns) THEN "sleep2" ELSE "return"
    /\ UNCHANGED <<adapters, playback,
                   session, storage, args, conversation_history, sleeps, returned>>

(***************************************************************************)
(* self.conversation_history = conversation_log; return conversation_log.  *)
(***************************************************************************)
\* Mutant: a call that hangs is given up and the run returns what it has.
ReturnLog_GivesUp ==
    /\ pc \in {"return", "hung"}
    /\ conversation_history' = RetainedHistory(conversation_log)
    /\ returned' = conversation_log
    /\ pc' = "done"
    /\ UNCHANGED <<adapters, playback,
                   session, storage, args, turn, messages, conversation_log,
                   call_count, calls, sleeps>>

ReturnLog ==
    /\ pc = "return"
    /\ conversation_history' = RetainedHistory(conversation_log)
    /\ returned' = conversation_log
    /\ pc' = "done"
    /\ UNCHANGED <<adapters, playback,
                   session, storage, args, turn, messages, conversation_log,
                   call_count, calls, sleeps>>

Next ==
    \/ RunConversation
    \/ SleepBeforeChatbot2
    \/ Chatbot2Responds
    \/ SleepBeforeChatbot1
    \/ Chatbot1Responds
    \/ ReturnLog

Spec == Init /\ [][Next]_vars

(***************************************************************************)
(* Several runs on one session: run_conversation is called on a new        *)
(* session or again after it returned.  The adapters keep counting their   *)
(* calls across the runs.                                                  *)
(***************************************************************************)
RunConversationOnSession ==
    /\ pc \in {"idle", "done"}
    /\ runs < MaxRuns
    /\ \E ip \in Prompts, n \in 0..RerunMaxTurns :
        StartRun(ip, "You are A", "You are B", n, 0, FALSE)

NextRerun ==
    \/ RunConversationOnSession
    \/ SleepBeforeChatbot2
    \/ Chatbot2Responds
    \/ SleepBeforeChatbot1
    \/ Chatbot1Responds
    \/ ReturnLog

SpecRerun == Init /\ [][NextRerun]_vars

(***************************************************************************)
(* An adapter call that never returns.  provider.get_response is called    *)
(* with no timeout, inside get_chatbot_response's try: the run stays in    *)
(* that call.  The invocation is recorded with the outcome NeverReturns.   *)
(***************************************************************************)
NeverReturns == [raised |-> FALSE, text |-> NoValue]

AdapterCallHangs ==
    /\ pc \in {"call2", "call1"}
    /\ LET provider == IF pc = "call2" THEN provider2 ELSE provider1
           call == [ provider |-> provider,
                     chatbot_name |->
                         IF pc = "call2" THEN "Chatbot 2" ELSE "Chatbot 1",
                     system_prompt |->
                         IF pc = "call2" THEN chatbot2_system
                         ELSE chatbot1_system,
                     messages |->
                         IF pc = "call2" THEN ReverseRoles(messages)
                         ELSE Chatbot1View(messages),
                     outcome |-> NeverReturns ]
       IN  /\ calls' = Append(calls, call)
           /\ call_count' = [call_count EXCEPT ![provider] = @ + 1]
    /\ pc' = "hung"
    /\ UNCHANGED <<adapters, playback,
                   session, storage, args, conversation_history, turn, messages,
                   conversation_log, sleeps, returned>>

\* The steps of a run in progress.
RunSteps ==
    \/ SleepBeforeChatbot2
    \/ Chatbot2Responds
    \/ SleepBeforeChatbot1
    \/ Chatbot1Responds
    \/ ReturnLog
    \/ AdapterCallHangs

NextHang ==
    \/ RunConversation
    \/ RunSteps

\* The interpreter executes the run's next statement: a step that is
\* enabled is eventually taken.  A call that hangs enables nothing.
SpecHang == Init /\ [][NextHang]_vars /\ WF_vars(RunSteps)

(***************************************************************************)
(* A run that is aborted: time.sleep(delay) raises (ValueError for a       *)
(* negative delay, KeyboardInterrupt while it waits).  The call is outside *)
(* get_chatbot_response's try, so the error leaves run_conversation before *)
(* line 236 assigns self.conversation_history.  The caller may run again.  *)
(***************************************************************************)
RerunDelays == {-1, 0}

\* Mutant: the log gathered so far is retained when the run is aborted.
HistoryAfterAbort_Partial(history, log) == log

HistoryAfterAbort(history, log) == history

SleepRaises ==
    /\ pc \in {"sleep2", "sleep1"}
    /\ conversation_history' =
           HistoryAfterAbort(conversation_history, conversation_log)
    /\ pc' = "aborted"
    /\ UNCHANGED <<adapters, playback,
                   session, storage, args, turn, messages, conversation_log,
                   call_count, calls, sleeps, returned>>

RunConversationAnyDelay ==
    /\ pc \in {"idle", "done", "aborted"}
    /\ runs < MaxRuns
    /\ \E ip \in Prompts, n \in 0..RerunMaxTurns, d \in RerunDelays :
        StartRun(ip, "You are A", "You are B", n, d, FALSE)

NextAbort ==
    \/ RunConversationAnyDelay
    \/ SleepBeforeChatbot2
    \/ Chatbot2Responds
    \/ SleepBeforeChatbot1
    \/ Chatbot1Responds
    \/ ReturnLog
    \/ SleepRaises

SpecAbort == Init /\ [][NextAbort]_vars

(***************************************************************************)
(* Texts on disk.  A text is a sequence of characters; Chars gives the     *)
(* characters of the strings that occur in saved records.                  *)
(***************************************************************************)
Letters ==
    {"a", "b", "c", "d", "e", "f", "g", "h", "i", "j", "k", "l", "m", "n",
     "o", "p", "q", "r", "s", "t", "u", "v", "w", "x", "y", "z",
     "A", "B", "C", "D", "E", "F", "G", "H", "I", "J", "K", "L", "M", "N",
     "O", "P", "Q", "R", "S", "T", "U", "V", "W", "X", "Y", "Z"}
DigitChars == <<"0", "1", "2", "3", "4", "5", "6", "7", "8", "9">>

\* \w of Python's re on str: letters, digits and the underscore.
IsWordChar(c) == c \in Letters \/ c = "_" \/ \E d \in 1..10 : DigitChars[d] = c

\* \s, and the characters str.strip() removes.
IsSpaceChar(c) == c \in {" ", "\t", "\n", "\r"}

\* The class [\W_].
IsNonWordOrUnderscore(c) == ~IsWordChar(c) \/ c = "_"

Chars(s) ==
    CASE s = "Chatbot 1 (Initial)" ->
        <<"C", "h", "a", "t", "b", "o", "t", " ", "1", " ", "(", "I", "n",
          "i", "t", "i", "a", "l", ")">>
      [] s = "Chatbot 2" ->
        <<"C", "h", "a", "t", "b", "o", "t", " ", "2">>
      [] s = "Chatbot 1" ->
        <<"C", "h", "a", "t", "b", "o", "t", " ", "1">>
      [] s = "Hello" ->
        <<"H", "e", "l", "l", "o">>
      [] s = "PB1" ->
        <<"P", "B", "1">>
      [] s = "Hi\nyou" ->
        <<"H", "i", "\n", "y", "o", "u">>
      [] s = " - Turn " ->
        <<" ", "-", " ", "T", "u", "r", "n", " ">>
      [] s = "Indeed." ->
        <<"I", "n", "d", "e", "e", "d", ".">>
      [] s = "PA1" ->
        <<"P", "A", "1">>
      [] s = "PA2" ->
        <<"P", "A", "2">>
      [] s = "PA3" ->
        <<"P", "A", "3">>
      [] s = "PA4" ->
        <<"P", "A", "4">>
      [] s = "PA5" ->
        <<"P", "A", "5">>
      [] s = "PA6" ->
        <<"P", "A", "6">>
      [] s = "PB2" ->
        <<"P", "B", "2">>
      [] s = "PB3" ->
        <<"P", "B", "3">>
      [] s = "PB4" ->
        <<"P", "B", "4">>
      [] s = "PB5" ->
        <<"P", "B", "5">>
      [] s = "PA7" ->
        <<"P", "A", "7">>
      [] s = "PA8" ->
        <<"P", "A", "8">>
      [] s = "Error getting response from Chatbot 1: timeout" ->
        <<"E", "r", "r", "o", "r", " ", "g", "e", "t", "t", "i", "n", "g",
          " ", "r", "e", "s", "p", "o", "n", "s", "e", " ", "f", "r", "o",
          "m", " ", "C", "h", "a", "t", "b", "o", "t", " ", "1", ":", " ",
          "t", "i", "m", "e", "o", "u", "t">>
      [] s = "Error getting response from Chatbot 2: timeout" ->
        <<"E", "r", "r", "o", "r", " ", "g", "e", "t", "t", "i", "n", "g",
          " ", "r", "e", "s", "p", "o", "n", "s", "e", " ", "f", "r", "o",
          "m", " ", "C", "h", "a", "t", "b", "o", "t", " ", "2", ":", " ",
          "t", "i", "m", "e", "o", "u", "t">>

RECURSIVE Str(_)
\* str(n) of a non-negative integer.
Str(n) ==
    IF n < 10 THEN <<DigitChars[n + 1]>>
    ELSE Str(n \div 10) \o <<DigitChars[(n % 10) + 1]>>

RuleWidth == 80

\* '=' * 80
Rule == [i \in 1..RuleWidth |-> "="]

\* The four writes of save_conversation for one entry.
EntryText(entry) ==
    <<"\n">> \o Rule \o <<"\n">>
      \o Chars(entry.speaker) \o Chars(" - Turn ") \o Str(entry.turn)
      \o <<"\n">>
      \o Rule \o <<"\n">>
      \o Chars(entry.message) \o <<"\n">>

RECURSIVE FileText(_)
\* The text save_conversation writes for a history.
FileText(history) ==
    IF history = <<>> THEN <<>>
    ELSE EntryText(Head(history)) \o FileText(Tail(history))

(***************************************************************************)
(* The transcript reader of perform.py.                                    *)
(***************************************************************************)
\* str.splitlines(): the pieces between the line breaks; a break at the end
\* of the text starts no further line.
SplitLines(text) ==
    LET breaks == {i \in 1..Len(text) : text[i] = "\n"}
        Break(k) == IF k = 0 THEN 0
                    ELSE IF k > Cardinality(breaks) THEN Len(text) + 1
                    ELSE CHOOSE i \in breaks :
                            Cardinality({j \in breaks : j < i}) = k - 1
        count == Cardinality(breaks) +
                 (IF Len(text) > 0 /\ text[Len(text)] # "\n" THEN 1 ELSE 0)
    IN  [k \in 1..count |-> SubSeq(text, Break(k - 1) + 1, Break(k) - 1)]

\* str.strip()
Strip(text) ==
    LET kept == {i \in 1..Len(text) : ~IsSpaceChar(text[i])}
    IN  IF kept = {} THEN <<>>
        ELSE SubSeq(text, CHOOSE i \in kept : \A k \in kept : i <= k,
                          CHOOSE i \in kept : \A k \in kept : i >= k)

RECURSIVE JoinLines(_)
\* "\n".join(lines)
JoinLines(lines) ==
    IF lines = <<>> THEN <<>>
    ELSE IF Len(lines) = 1 THEN lines[1]
    ELSE lines[1] \o <<"\n">> \o JoinLines(Tail(lines))

\* re.match(r"^\s*[\W_]+\s+\w+", line): some whitespace at position p >= 2
\* is followed by a word character and preceded only by characters of
\* [\W_] (whitespace is in \W, so \s* and [\W_]+ share the prefix).
is_speaker_label(line) ==
    \E p \in 2..Len(line) - 1 :
        /\ IsSpaceChar(line[p])
        /\ IsWordChar(line[p + 1])
        /\ \A i \in 1..p - 1 : IsNonWordOrUnderscore(line[i])

\* re.sub(r"^[\W_]+\s+", "", line).strip(): the greedy match ends at the
\* last whitespace (at a position >= 2) of the leading run of [\W_].
extract_speaker_name(line) ==
    LET run == {n \in 0..Len(line) :
                    \A i \in 1..n : IsNonWordOrUnderscore(line[i])}
        k == CHOOSE n \in run : \A m \in run : n >= m
        ends == {q \in 2..k : IsSpaceChar(line[q])}
    IN  IF ends = {} THEN Strip(line)
        ELSE LET q == CHOOSE e \in ends : \A m \in ends : e >= m
             IN  Strip(SubSeq(line, q + 1, Len(line)))

\* First index from `from` on of a line that is not blank, or Len + 1.
SkipBlank(lines, from) ==
    LET stops == {i \in from..Len(lines) + 1 :
                     i = Len(lines) + 1 \/ Strip(lines[i]) # <<>>}
    IN  CHOOSE i \in stops : \A k \in stops : i <= k

\* First index from `from` on of a speaker-label line, or Len + 1.
NextLabel(lines, from) ==
    LET stops == {i \in from..Len(lines) + 1 :
                     i = Len(lines) + 1 \/ is_speaker_label(Strip(lines[i]))}
    IN  CHOOSE i \in stops : \A k \in stops : i <= k

RECURSIVE PerformFrom(_, _, _)
\* The while loop of perform_transcript from line idx on; `out` lists the
\* (speaker, message) blocks played so far.
PerformFrom(lines, idx, out) ==
    IF idx > Len(lines) THEN out
    ELSE LET line == Strip(lines[idx])
         IN  IF line = <<>> THEN PerformFrom(lines, idx + 1, out)
             ELSE IF is_speaker_label(line)
             THEN LET start == SkipBlank(lines, idx + 1)
                      stop == NextLabel(lines, start)
                      block == [speaker |-> extract_speaker_name(line),
                                message |-> Strip(JoinLines(
                                    SubSeq(lines, start, stop - 1)))]
                  IN  PerformFrom(lines, stop, Append(out, block))
             ELSE PerformFrom(lines, idx + 1, out)

(***************************************************************************)
(* Saving and playing a transcript.  The session has been constructed and  *)
(* may have completed a run of up to SavedTurns turns; the file is absent  *)
(* or holds an older transcript with marker-and-name headers.              *)
(***************************************************************************)
SavedTurns == 1
SavedTexts == {"Hello", "PB1", "Hi\nyou"}

OldFile ==
    <<"*", " ", "B", "o", "b", "\n", "\n", "H", "i", "\n", "\n",
      "#", " ", "A", "l", "\n", "y", "o", "\n">>

HistoryOf(texts) ==
    [i \in 1..Len(texts) |->
        IF i = 1 THEN SeedRecord(texts[1])
        ELSE IF i % 2 = 0 THEN Chatbot2Record((i \div 2) - 1, texts[i])
        ELSE Chatbot1Record(((i - 1) \div 2) - 1, texts[i])]

SavedHistories ==
    {<<>>} \cup
    UNION {{HistoryOf(t) : t \in [1..(2 * n + 1) -> SavedTexts]} :
              n \in 0..SavedTurns}

InitSave ==
    /\ provider1 = "PA"
    /\ provider2 = "PB"
    /\ provider2_arg = "PB"
    /\ conversation_history \in SavedHistories
    /\ pc = IF conversation_history = <<>> THEN "idle" ELSE "done"
    /\ runs = IF conversation_history = <<>> THEN 0 ELSE 1
    /\ initial_prompt = NoValue
    /\ chatbot1_system = NoValue
    /\ chatbot2_system = NoValue
    /\ num_turns = 0
    /\ delay = 0
    /\ verbose = FALSE
    /\ turn = 0
    /\ messages = <<>>
    /\ conversation_log = <<>>
    /\ call_count = [p \in Instances |-> 0]
    /\ calls = <<>>
    /\ sleeps = 0
    /\ returned = NoValue
    /\ file \in {NoValue, OldFile}
    /\ file_saved = FALSE
    /\ performed = NoValue
    /\ performed_file = NoValue
    /\ NoAdapters
    /\ NoPlayback

\* Mutant: saving hands the history over: the session's list is emptied.
SaveConversation_Consuming ==
    /\ file' = FileText(conversation_history)
    /\ file_saved' = TRUE
    /\ conversation_history' = <<>>
    /\ UNCHANGED <<adapters, playback,
                   session, args, pc, turn, messages,
                   conversation_log, call_count, calls, sleeps, returned,
                   performed, performed_file>>

\* save_conversation: the file is opened with 'w' and every entry written.
SaveConversation ==
    /\ file' = FileText(conversation_history)
    /\ file_saved' = TRUE
    /\ UNCHANGED <<adapters, playback,
                   session, args, pc, conversation_history, turn, messages,
                   conversation_log, call_count, calls, sleeps, returned,
                   performed, performed_file>>

\* perform_transcript on the file.
PerformTranscript ==
    /\ file # NoValue
    /\ performed' = PerformFrom(SplitLines(file), 1, <<>>)
    /\ performed_file' = file
    /\ UNCHANGED <<adapters, playback,
                   session, args, pc, conversation_history, turn, messages,
                   conversation_log, call_count, calls, sleeps, returned,
                   file, file_saved>>

NextSave ==
    \/ SaveConversation
    \/ PerformTranscript

SpecSave == InitSave /\ [][NextSave]_vars

(***************************************************************************)
(* The session's other methods, called between runs.  save_conversation    *)
(* may fail with an OSError: from mkdir or open (the file is as it was) or *)
(* from a write (the file was truncated and holds the entries written so   *)
(* far).  get_chatbot_response may be called by the session's user, here   *)
(* with a dialogue of the user's own; it returns the text or the error     *)
(* string to that caller.                                                  *)
(***************************************************************************)
MaxDirectCalls == 1

SaveConversationFails ==
    /\ pc \in {"idle", "done"}
    /\ \/ file' = file
       \/ \E k \in 0..(Len(conversation_history) - 1) :
            file' = FileText(SubSeq(conversation_history, 1, k))
    /\ UNCHANGED <<adapters, playback,
                   session, args, pc, conversation_history, turn, messages,
                   conversation_log, call_count, calls, sleeps, returned,
                   file_saved, performed, performed_file>>

SaveConversationBetweenRuns ==
    /\ pc \in {"idle", "done"}
    /\ SaveConversation

GetChatbotResponse ==
    /\ pc \in {"idle", "done"}
    /\ Len(calls) < 2 * num_turns + MaxDirectCalls
    /\ \E provider \in {provider1, provider2} :
        \E outcome \in AdapterOutcomes(provider, call_count[provider] + 1) :
            LET r == get_chatbot_response(provider, "Chatbot 1", "You are A",
                                          SeedDialogue("Hello"), outcome)
            IN  /\ calls' = calls \o r.invocations
                /\ call_count' = [call_count EXCEPT
                                    ![provider] = @ + Len(r.invocations)]
    /\ UNCHANGED <<adapters, playback,
                   session, storage, args, pc, conversation_history, turn,
                   messages, conversation_log, sleeps, returned>>

RunConversationBrief ==
    /\ pc = "idle"
    /\ \E n \in 0..SavedTurns :
        StartRun("Hello", "You are A", "You are B", n, 0, FALSE)

NextFrame ==
    \/ RunConversationBrief
    \/ SleepBeforeChatbot2
    \/ Chatbot2Responds
    \/ SleepBeforeChatbot1
    \/ Chatbot1Responds
    \/ ReturnLog
    \/ SaveConversationBetweenRuns
    \/ SaveConversationFails
    \/ GetChatbotResponse

SpecFrame == Init /\ [][NextFrame]_vars

(***************************************************************************)
(* The adapters.  src/providers.py has five (OpenAI, Anthropic, Ollama,    *)
(* xAI Grok, Google); src/chatbot_conversation.py has three of its own     *)
(* (OpenAI, Anthropic, Ollama), the classes `from chatbot_conversation     *)
(* import OpenAIProvider` gives.  A temperature is counted in tenths (7 is *)
(* 0.7); the strings of the environment are converted by float() and       *)
(* int().                                                                  *)
(***************************************************************************)
ProviderVariants ==
    {"providers.OpenAIProvider", "providers.AnthropicProvider",
     "providers.OllamaProvider", "providers.xAIGrokProvider",
     "providers.GoogleProvider"}
LegacyVariants ==
    {"chatbot_conversation.OpenAIProvider",
     "chatbot_conversation.AnthropicProvider",
     "chatbot_conversation.OllamaProvider"}
Variants == ProviderVariants \cup LegacyVariants

\* The prefix of the environment variables a class reads.
EnvPrefix(variant) ==
    CASE variant \in {"providers.OpenAIProvider",
                      "chatbot_conversation.OpenAIProvider"} -> "OPENAI"
      [] variant \in {"providers.AnthropicProvider",
                      "chatbot_conversation.AnthropicProvider"} -> "ANTHROPIC"
      [] variant \in {"providers.OllamaProvider",
                      "chatbot_conversation.OllamaProvider"} -> "OLLAMA"
      [] variant = "providers.xAIGrokProvider" -> "XAI"
      [] variant = "providers.GoogleProvider" -> "GEMINI"

\* The classes whose __init__ takes and checks an API key.
RequiresKey(variant) ==
    variant \notin {"providers.OllamaProvider",
                    "chatbot_conversation.OllamaProvider"}

\* A number that is None: an argument not passed, a default not kept.
NotGiven == -1

\* float(s) in tenths and int(s), for the strings of the model.
ParseFloat(s) ==
    CASE s = "0.7" -> 7
      [] s = "0.2" -> 2
      [] s = "0.4" -> 4

ParseInt(s) ==
    CASE s = "500" -> 500
      [] s = "100" -> 100
      [] s = "200" -> 200

\* os.environ.get(name, default)
environ_get(env, name, default) ==
    IF env[name] = NoValue THEN default ELSE env[name]

\* ChatProvider.__init__ of providers.py.
BaseDefaults(env) ==
    [ default_temperature |->
          ParseFloat(environ_get(env, "DEFAULT_TEMPERATURE", "0.7")),
      default_max_tokens |->
          ParseInt(environ_get(env, "DEFAULT_MAX_TOKENS", "500")) ]

\* Mutant: a temperature of 0 counts as not given (`temperature or ...`).
ProviderDefault_Truthy(arg, env_value, base, parsed) ==
    IF arg \notin {NotGiven, 0} THEN arg
    ELSE IF env_value # NoValue THEN parsed ELSE base

\* x if x is not None else float(os.environ.get(NAME, self.default_x)):
\* `parsed` is the conversion of env_value.
ProviderDefault(arg, env_value, base, parsed) ==
    IF arg # NotGiven THEN arg
    ELSE IF env_value # NoValue THEN parsed ELSE base

\* api_key or os.environ.get("<PREFIX>_API_KEY")
ResolveApiKey(api_key, env_key) ==
    IF api_key \notin {NoValue, ""} THEN api_key ELSE env_key

\* Mutant: only a key that is None counts as missing.
KeyMissing_NoneOnly(key) == key = NoValue

\* not self.api_key
KeyMissing(key) == key \in {NoValue, ""}

\* The object __init__ leaves behind.  The classes of
\* chatbot_conversation.py take no temperature or max_tokens and keep no
\* defaults.  The *_arg fields record the constructor's arguments.
NewAdapter(variant, env, api_key, temperature, max_tokens) ==
    LET prefix == EnvPrefix(variant)
        base == BaseDefaults(env)
        env_temperature == env[prefix \o "_TEMPERATURE"]
        env_max_tokens == env[prefix \o "_MAX_TOKENS"]
    IN  [ variant |-> variant,
          api_key |-> IF RequiresKey(variant)
                      THEN ResolveApiKey(api_key, env[prefix \o "_API_KEY"])
                      ELSE NoValue,
          api_key_arg |-> api_key,
          temperature_arg |-> temperature,
          max_tokens_arg |-> max_tokens,
          default_temperature |->
              IF variant \in LegacyVariants THEN NotGiven
              ELSE ProviderDefault(temperature, env_temperature,
                                   base.default_temperature,
                                   IF env_temperature = NoValue THEN NotGiven
                                   ELSE ParseFloat(env_temperature)),
          default_max_tokens |->
              IF variant \in LegacyVariants THEN NotGiven
              ELSE ProviderDefault(max_tokens, env_max_tokens,
                                   base.default_max_tokens,
                                   IF env_max_tokens = NoValue THEN NotGiven
                                   ELSE ParseInt(env_max_tokens)) ]

\* __init__: raises ValueError when a required key is missing.
Construct(variant, api_key, temperature, max_tokens) ==
    /\ adapter_object = Nothing
    /\ adapter_error = Nothing
    /\ LET new == NewAdapter(variant, environ, api_key, temperature,
                             max_tokens)
       IN  IF RequiresKey(variant) /\ KeyMissing(new.api_key)
           THEN /\ adapter_error' = [ type |-> "ValueError",
                                      variant |-> variant,
                                      api_key_arg |-> api_key ]
                /\ adapter_object' = adapter_object
           ELSE /\ adapter_object' = new
                /\ adapter_error' = adapter_error
    /\ UNCHANGED <<playback, environ, request, reply,
                   session, storage, args, pc, conversation_history, turn,
                   messages, conversation_log, call_count, calls, sleeps,
                   returned>>

ApiKeyArgs == {NoValue, "", "sk-arg"}
TemperatureArgs == {NotGiven, 0}
MaxTokensArgs == {NotGiven, 50}

ConstructAdapter ==
    \E variant \in Variants :
        \E api_key \in IF RequiresKey(variant) THEN ApiKeyArgs ELSE {NoValue},
           temperature \in IF variant \in ProviderVariants
                           THEN TemperatureArgs ELSE {NotGiven},
           max_tokens \in IF variant \in ProviderVariants
                          THEN MaxTokensArgs ELSE {NotGiven} :
            Construct(variant, api_key, temperature, max_tokens)

\* The defaults of get_response's parameters in chatbot_conversation.py.
LegacyTemperature == 7
LegacyMaxTokens == 500

\* get_response: the temperature and max_tokens put in the request.  An
\* argument of NotGiven is one the caller did not pass.
SentSettings(a, temperature, max_tokens) ==
    IF a.variant \in LegacyVariants
    THEN [ temperature |-> IF temperature = NotGiven THEN LegacyTemperature
                           ELSE temperature,
           max_tokens |-> IF max_tokens = NotGiven THEN LegacyMaxTokens
                          ELSE max_tokens,
           temperature_arg |-> temperature,
           max_tokens_arg |-> max_tokens ]
    ELSE [ temperature |-> IF temperature # NotGiven THEN temperature
                           ELSE a.default_temperature,
           max_tokens |-> IF max_tokens # NotGiven THEN max_tokens
                          ELSE a.default_max_tokens,
           temperature_arg |-> temperature,
           max_tokens_arg |-> max_tokens ]

CallTemperatures == {NotGiven, 9}
CallMaxTokens == {NotGiven, 20}

GetResponse ==
    /\ adapter_object # Nothing
    /\ \E temperature \in CallTemperatures, max_tokens \in CallMaxTokens :
        request' = SentSettings(adapter_object, temperature, max_tokens)
    /\ UNCHANGED <<playback, environ, adapter_object, adapter_error, reply,
                   session, storage, args, pc, conversation_history, turn,
                   messages, conversation_log, call_count, calls, sleeps,
                   returned>>

\* A session not yet run, as in Init, with two adapters of its own.
IdleSession ==
    /\ pc = "idle"
    /\ provider1 = "PA"
    /\ provider2 = "PB"
    /\ provider2_arg = "PB"
    /\ conversation_history = <<>>
    /\ initial_prompt = NoValue
    /\ chatbot1_system = NoValue
    /\ chatbot2_system = NoValue
    /\ num_turns = 0
    /\ delay = 0
    /\ verbose = FALSE
    /\ turn = 0
    /\ messages = <<>>
    /\ conversation_log = <<>>
    /\ call_count = [p \in Instances |-> 0]
    /\ calls = <<>>
    /\ sleeps = 0
    /\ returned = NoValue
    /\ runs = 0
    /\ file = NoValue
    /\ file_saved = FALSE
    /\ performed = NoValue
    /\ performed_file = NoValue

\* The environment: the process-wide defaults and the variables of one
\* provider are set or not.
Environments ==
    UNION {
      { [name \in EnvNames |->
            CASE name = "DEFAULT_TEMPERATURE" -> dt
              [] name = "DEFAULT_MAX_TOKENS" -> dm
              [] name = prefix \o "_TEMPERATURE" -> pt
              [] name = prefix \o "_MAX_TOKENS" -> pm
              [] name = prefix \o "_API_KEY" -> key
              [] OTHER -> NoValue] :
          dt \in {NoValue, "0.2"}, dm \in {NoValue, "100"},
          pt \in {NoValue, "0.4"}, pm \in {NoValue, "200"},
          key \in {NoValue, "", "sk-env"} } :
      prefix \in EnvPrefixes }

InitAdapters ==
    /\ IdleSession
    /\ NoPlayback
    /\ environ \in Environments
    /\ adapter_object = Nothing
    /\ adapter_error = Nothing
    /\ request = Nothing
    /\ reply = Nothing

NextAdapters ==
    \/ ConstructAdapter
    \/ GetResponse

SpecAdapters == InitAdapters /\ [][NextAdapters]_vars

(***************************************************************************)
(* GoogleProvider.get_response, from the backend's response on.  A         *)
(* response has .text, which raises ValueError when the backend gave no    *)
(* usable text (text = NoValue); it may have a prompt_feedback, which may  *)
(* have a block_reason; it has a list of candidates, each with a           *)
(* finish_reason and possibly a content with parts; a part may have a      *)
(* text, and reading it may raise.                                         *)
(***************************************************************************)
MaxParts == 2

\* A part: its text, or no text attribute, or a text that raises when read.
PartKinds ==
    { [has_text |-> TRUE, raises |-> FALSE, text |-> "Par"],
      [has_text |-> TRUE, raises |-> FALSE, text |-> ""],
      [has_text |-> FALSE, raises |-> FALSE, text |-> ""],
      [has_text |-> TRUE, raises |-> TRUE, text |-> ""] }

PartLists == UNION {[1..n -> PartKinds] : n \in 0..MaxParts}

FinishReasons == {1, 2, 3, 4, 5, 12}

\* A candidate; has_content: it has a content attribute (with its parts).
Candidates ==
    { [finish_reason |-> f, has_content |-> h, parts |-> parts] :
        f \in FinishReasons, h \in BOOLEAN, parts \in PartLists }

\* prompt_feedback: "absent", or without block_reason, or with one.
PromptFeedbacks ==
    {"absent", "no block_reason", "SAFETY", "BLOCK_REASON_UNSPECIFIED"}

BlockedResponses ==
    { [text |-> NoValue, prompt_feedback |-> pf, candidates |-> cs] :
        pf \in PromptFeedbacks,
        cs \in {<<>>} \cup
               {<<c>> : c \in {d \in Candidates :
                                 d.has_content \/ d.parts = <<>>}} }

TextResponse ==
    [text |-> "Sure.", prompt_feedback |-> "BLOCK_REASON_UNSPECIFIED",
     candidates |-> <<[finish_reason |-> 1, has_content |-> TRUE,
                       parts |-> <<[has_text |-> TRUE, raises |-> FALSE,
                                    text |-> "Sure."]>>]>>]

GeminiResponses == {TextResponse} \cup BlockedResponses

\* str(e) of the ValueError response.text raised.
NoTextError == "response.text needs a valid Part"

\* reasons.get(finish_reason, f"Unknown reason: {finish_reason}")
ReasonText(finish_reason) ==
    CASE finish_reason = 1 -> "STOP - completed normally"
      [] finish_reason = 2 -> "SAFETY - content filtered"
      [] finish_reason = 3 -> "RECITATION - too similar to training data"
      [] finish_reason = 4 -> "MAX_TOKENS - reached token limit"
      [] finish_reason = 5 -> "OTHER - unknown reason"
      [] OTHER -> "Unknown reason: " \o ToString(finish_reason)

\* "".join([part.text for part in parts if hasattr(part, 'text')])
RECURSIVE JoinParts(_)
JoinParts(parts) ==
    IF parts = <<>> THEN ""
    ELSE (IF Head(parts).has_text THEN Head(parts).text ELSE "")
           \o JoinParts(Tail(parts))

\* The inner try: the joined text, or nothing when reading a part raised
\* (except: pass).
PartialText(parts) ==
    IF \E i \in 1..Len(parts) : parts[i].has_text /\ parts[i].raises
    THEN ""
    ELSE JoinParts(parts)

\* Mutant: no except clause: the ValueError of response.text propagates.
GoogleReply_Unhandled(response) ==
    IF response.text # NoValue
    THEN [raised |-> FALSE, text |-> response.text, response |-> response]
    ELSE [raised |-> TRUE, text |-> NoTextError, response |-> response]

\* try: return response.text / except ValueError: ...  `response` records
\* what the backend gave.
GoogleReply(response) ==
    LET said(text) ==
            [raised |-> FALSE, text |-> text, response |-> response]
    IN  IF response.text # NoValue THEN said(response.text)
        ELSE IF response.prompt_feedback \notin {"absent", "no block_reason"}
        THEN said("[Response blocked by safety filter: "
                    \o response.prompt_feedback \o "]")
        ELSE IF response.candidates # <<>>
        THEN LET candidate == response.candidates[1]
                 reason_text == ReasonText(candidate.finish_reason)
                 partial == IF candidate.has_content /\ candidate.parts # <<>>
                            THEN PartialText(candidate.parts)
                            ELSE ""
             IN  IF partial # ""
                 THEN said(partial
                             \o "\n\n[Response may be incomplete - finish reason: "
                             \o reason_text \o "]")
                 ELSE said("[Response blocked - " \o reason_text \o "]")
        ELSE said("[Error generating response: " \o NoTextError \o "]")

ConstructGoogle ==
    \E api_key \in {NoValue, "sk-arg"} :
        Construct("providers.GoogleProvider", api_key, NotGiven, NotGiven)

GoogleGetResponse ==
    /\ adapter_object # Nothing
    /\ adapter_object.variant = "providers.GoogleProvider"
    /\ request' = SentSettings(adapter_object, NotGiven, NotGiven)
    /\ \E response \in GeminiResponses : reply' = GoogleReply(response)
    /\ UNCHANGED <<playback, environ, adapter_object, adapter_error,
                   session, storage, args, pc, conversation_history, turn,
                   messages, conversation_log, call_count, calls, sleeps,
                   returned>>

InitGemini ==
    /\ IdleSession
    /\ NoPlayback
    /\ environ \in {EmptyEnviron,
                    [EmptyEnviron EXCEPT !["GEMINI_API_KEY"] = "sk-env"]}
    /\ adapter_object = Nothing
    /\ adapter_error = Nothing
    /\ request = Nothing
    /\ reply = Nothing

NextGemini ==
    \/ ConstructGoogle
    \/ GoogleGetResponse

SpecGemini == InitGemini /\ [][NextGemini]_vars

(***************************************************************************)
(* perform_transcript's voices.  get_voice_for is called once for every    *)
(* block, with the speaker of its label.  A dict is a function on its      *)
(* keys.  Speakers the configuration does not list: "Ann" and "Bob", who   *)
(* may turn up at any time, and "Speaker 1", "Speaker 2", ..., who stand   *)
(* for any further speakers and turn up in that order.                     *)
(***************************************************************************)
AVAILABLE_VOICES ==
    <<"alloy", "echo", "fable", "onyx", "nova", "shimmer", "coral", "verse",
      "ballad", "ash", "sage", "marin", "cedar">>

MaxSpeakers == 13

ConfigVoiceMaps ==
    { <<>>,
      [s \in {"Claude"} |-> "nova"],
      [s \in {"Claude", "Ann", "_default"} |->
          CASE s = "Claude" -> "nova"
            [] s = "Ann" -> "onyx"
            [] s = "_default" -> "echo"] }

NumberedSpeaker(k) == "Speaker " \o ToString(k)

\* d[key] = value
DictSet(d, key, value) ==
    [k \in DOMAIN d \cup {key} |-> IF k = key THEN value ELSE d[k]]

\* Mutant: the dynamic assignments are not looked up: every block of an
\* unlisted speaker takes the next voice.
get_voice_for_Forgetful(config, dynamic, index, speaker) ==
    IF speaker \in DOMAIN config
    THEN [ voice |-> config[speaker], dynamic_voice_map |-> dynamic,
           next_voice_index |-> index ]
    ELSE [ voice |-> AVAILABLE_VOICES[(index % Len(AVAILABLE_VOICES)) + 1],
           dynamic_voice_map |->
               DictSet(dynamic, speaker,
                       AVAILABLE_VOICES[(index % Len(AVAILABLE_VOICES)) + 1]),
           next_voice_index |-> index + 1 ]

\* get_voice_for(speaker): the voice, and the closure's variables after it.
get_voice_for(config, dynamic, index, speaker) ==
    IF speaker \in DOMAIN config
    THEN [ voice |-> config[speaker], dynamic_voice_map |-> dynamic,
           next_voice_index |-> index ]
    ELSE IF speaker \in DOMAIN dynamic
    THEN [ voice |-> dynamic[speaker], dynamic_voice_map |-> dynamic,
           next_voice_index |-> index ]
    ELSE [ voice |-> AVAILABLE_VOICES[(index % Len(AVAILABLE_VOICES)) + 1],
           dynamic_voice_map |->
               DictSet(dynamic, speaker,
                       AVAILABLE_VOICES[(index % Len(AVAILABLE_VOICES)) + 1]),
           next_voice_index |-> index + 1 ]

\* The speakers the next label may name.
NextSpeakers ==
    LET numbered == Cardinality({k \in 1..MaxSpeakers :
                       \E i \in 1..Len(first_seen) :
                           first_seen[i] = NumberedSpeaker(k)})
    IN  DOMAIN config_voice_map \cup {"Ann", "Bob"}
          \cup {NumberedSpeaker(k) :
                  k \in 1..(IF numbered < MaxSpeakers THEN numbered + 1
                            ELSE MaxSpeakers)}

\* One block of the transcript: its label's speaker gets a voice.
SpeakerBlock ==
    /\ \E speaker \in NextSpeakers :
        LET r == get_voice_for(config_voice_map, dynamic_voice_map,
                               next_voice_index, speaker)
        IN  /\ dynamic_voice_map' = r.dynamic_voice_map
            /\ next_voice_index' = r.next_voice_index
            /\ voiced' = [speaker |-> speaker, voice |-> r.voice]
            /\ first_seen' =
                 IF speaker \in DOMAIN config_voice_map
                    \/ \E i \in 1..Len(first_seen) : first_seen[i] = speaker
                 THEN first_seen
                 ELSE Append(first_seen, speaker)
    /\ UNCHANGED <<adapters, config_voice_map,
                   session, storage, args, pc, conversation_history, turn,
                   messages, conversation_log, call_count, calls, sleeps,
                   returned>>

InitVoices ==
    /\ IdleSession
    /\ NoAdapters
    /\ config_voice_map \in ConfigVoiceMaps
    /\ dynamic_voice_map = <<>>
    /\ next_voice_index = 0
    /\ first_seen = <<>>
    /\ voiced = Nothing

NextVoices == SpeakerBlock

SpecVoices == InitVoices /\ [][NextVoices]_vars

(***************************************************************************)
(* Helpers of the properties.                                              *)
(***************************************************************************)
\* The participant a log record is attributed to.
SpeakerParticipant(speaker) ==
    IF speaker \in {"Chatbot 1 (Initial)", "Chatbot 1"} THEN 1
    ELSE IF speaker = "Chatbot 2" THEN 2 ELSE 0

\* The participant whose call site made an adapter call.
CallParticipant(call) == IF call.chatbot_name = "Chatbot 1" THEN 1 ELSE 2

Started == pc # "idle"
Finished == pc = "done"
SomeCallRaised == \E j \in 1..Len(calls) : calls[j].outcome.raised
SomeCallReturned == \E j \in 1..Len(calls) : ~calls[j].outcome.raised
CallsOf(participant) ==
    {j \in 1..Len(calls) : CallParticipant(calls[j]) = participant}

(***************************************************************************)
(* C1: for every num_turns = n >= 0 and whatever the adapters do (return   *)
(* or raise), the log run_conversation returns has exactly 2n + 1 records, *)
(* and with n = 0 it holds the seed record only.                           *)
(***************************************************************************)
C1_LogLength ==
    Finished =>
        /\ Len(returned) = 2 * num_turns + 1
        /\ num_turns = 0 =>
              /\ returned[1].turn = 0
              /\ returned[1].message = initial_prompt
              /\ calls = <<>>

C1_Witness ==
    /\ Finished
    /\ num_turns >= 2
    /\ SomeCallRaised
    /\ SomeCallReturned
    /\ Len(returned) = 2 * num_turns + 1

(***************************************************************************)
(* C2: record 0 of the log has turn index 0, is attributed to participant  *)
(* 1 and carries initial_prompt unmodified; it is in the log before any    *)
(* adapter call is made, and every adapter call accounts for a later       *)
(* record, so no call produces it.                                         *)
(***************************************************************************)
C2_SeedRecord ==
    Started =>
        /\ Len(conversation_log) >= 1
        /\ conversation_log[1].turn = 0
        /\ SpeakerParticipant(conversation_log[1].speaker) = 1
        /\ conversation_log[1].message = initial_prompt
        /\ Len(conversation_log) = 1 => calls = <<>>
        /\ Len(calls) = Len(conversation_log) - 1

C2_Witness ==
    /\ pc = "call2"
    /\ turn = 0
    /\ calls = <<>>
    /\ conversation_log =
          <<[turn |-> 0, speaker |-> "Chatbot 1 (Initial)",
             message |-> "Hello"]>>

(***************************************************************************)
(* C3: the adapter calls of a run occur in the order P2, P1, P2, P1, ...   *)
(* each on the adapter of its participant; the record at position j        *)
(* (1..2n) is attributed to participant 2 for odd j and to participant 1   *)
(* for even j, and a call that returned has its text as the record's       *)
(* message; with two distinct adapters the j-th call is call number        *)
(* (j+1) div 2 of its adapter (seed, B1, A1, B2, A2).                      *)
(***************************************************************************)
C3_Alternation ==
    /\ Len(conversation_log) >= Len(calls)
    /\ \A j \in 1..Len(calls) :
        LET p == IF j % 2 = 1 THEN 2 ELSE 1
            k == (j + 1) \div 2
            adapter == IF p = 2 THEN provider2 ELSE provider1
        IN  /\ CallParticipant(calls[j]) = p
            /\ calls[j].provider = adapter
            /\ Len(conversation_log) >= j + 1
            /\ SpeakerParticipant(conversation_log[j + 1].speaker) = p
            /\ ~calls[j].outcome.raised =>
                  conversation_log[j + 1].message = calls[j].outcome.text
            /\ provider1 # provider2 =>
                  calls[j].outcome \in AdapterOutcomes(adapter, k)

C3_Witness ==
    /\ Finished
    /\ provider1 # provider2
    /\ Len(returned) = 5
    /\ returned[2].message = "PB1" /\ returned[2].speaker = "Chatbot 2"
    /\ returned[3].message = "PA1" /\ returned[3].speaker = "Chatbot 1"
    /\ returned[4].message = "PB2" /\ returned[4].speaker = "Chatbot 2"
    /\ returned[5].message = "PA2" /\ returned[5].speaker = "Chatbot 1"

(***************************************************************************)
(* C4: an adapter call that raises does not end the run: the record at     *)
(* its position holds 'Error getting response from <participant>:          *)
(* <reason>' naming the participant whose call failed, and the run goes    *)
(* on; a run finishes with 2n + 1 records also when every call raised.     *)
(***************************************************************************)
C4_ErrorRecorded ==
    /\ \A j \in 1..Len(calls) :
          calls[j].outcome.raised =>
            /\ Len(conversation_log) >= j + 1
            /\ conversation_log[j + 1].message =
                  "Error getting response from "
                    \o (IF j % 2 = 1 THEN "Chatbot 2" ELSE "Chatbot 1")
                    \o ": " \o calls[j].outcome.text
    /\ Finished => Len(returned) = 2 * num_turns + 1
    /\ (pc = "return" /\ SomeCallRaised) =>
          Len(conversation_log) = 2 * num_turns + 1

C4_Witness ==
    /\ Finished
    /\ num_turns = 2
    /\ \A j \in 1..Len(calls) : calls[j].outcome.raised
    /\ Len(returned) = 5
    /\ returned[2].message = "Error getting response from Chatbot 2: timeout"
    /\ returned[5].message = "Error getting response from Chatbot 1: timeout"

(***************************************************************************)
(* C5: a failing call is not re-attempted: every step invokes its adapter  *)
(* exactly once, whether the call returns or raises, so a run of n turns   *)
(* makes 2n adapter calls, n from each participant's call site.            *)
(***************************************************************************)
C5_NoRetry ==
    /\ pc \in {"sleep2", "call2"} => Len(calls) = 2 * turn
    /\ pc \in {"sleep1", "call1"} => Len(calls) = 2 * turn + 1
    /\ pc \in {"return", "done"} =>
          /\ Len(calls) = 2 * num_turns
          /\ Cardinality(CallsOf(1)) = num_turns
          /\ Cardinality(CallsOf(2)) = num_turns
    /\ \A j \in 1..Len(calls) - 1 :
          CallParticipant(calls[j]) # CallParticipant(calls[j + 1])

C5_Witness ==
    /\ pc = "return"
    /\ num_turns >= 2
    /\ calls[1].outcome.raised
    /\ ~calls[2].outcome.raised
    /\ Len(calls) = 2 * num_turns

(***************************************************************************)
(* C6: at every participant-2 step the message list passed to participant  *)
(* 2's adapter is the role-inverted view of the whole working dialogue:    *)
(* same length, same contents in the same order, every role swapped        *)
(* (assistant <-> user); the working dialogue itself is left as it was     *)
(* (the step only appends the response to it).                             *)
(***************************************************************************)
C6_InvertedView ==
    [][pc = "call2" =>
        LET view == calls'[Len(calls')].messages
        IN  /\ Len(calls') = Len(calls) + 1
            /\ calls'[Len(calls')].system_prompt = chatbot2_system
            /\ Len(view) = Len(messages)
            /\ \A i \in 1..Len(messages) :
                  /\ view[i].content = messages[i].content
                  /\ \/ messages[i].role = "assistant" /\ view[i].role = "user"
                     \/ messages[i].role = "user" /\ view[i].role = "assistant"
            /\ Len(messages') = Len(messages) + 1
            /\ SubSeq(messages', 1, Len(messages)) = messages]_vars

C6_Witness ==
    /\ pc = "sleep1"
    /\ Len(calls) = 3
    /\ Len(calls[3].messages) = 3
    /\ calls[3].messages[1] = [role |-> "user", content |-> "Hello"]
    /\ calls[3].messages[2].role = "assistant"
    /\ calls[3].messages[3].role = "user"
    /\ messages[1] = [role |-> "assistant", content |-> "Hello"]

(***************************************************************************)
(* C7: at every participant-1 step participant 1's adapter is called with  *)
(* participant 1's role prompt and the working dialogue without inversion: *)
(* roles and contents exactly as stored, the last message being            *)
(* participant 2's response of the same repetition.                        *)
(***************************************************************************)
C7_StoredView ==
    [][pc = "call1" =>
        LET call == calls'[Len(calls')]
            last == Len(messages)
        IN  /\ Len(calls') = Len(calls) + 1
            /\ call.provider = provider1
            /\ call.system_prompt = chatbot1_system
            /\ call.messages = messages
            /\ last = Len(conversation_log)
            /\ conversation_log[last].speaker = "Chatbot 2"
            /\ conversation_log[last].turn = turn + 1
            /\ messages[last].content = conversation_log[last].message]_vars

C7_Witness ==
    /\ pc \in {"sleep2", "return"}
    /\ Len(calls) = 4
    /\ chatbot1_system # chatbot2_system
    /\ calls[4].system_prompt = chatbot1_system
    /\ Len(calls[4].messages) = 4
    /\ calls[4].messages[4] = [role |-> "user", content |-> "PB2"]
    /\ calls[4].messages = SubSeq(messages, 1, 4)

(***************************************************************************)
(* C8: role inversion is an involution on every working dialogue a run     *)
(* reaches: inverting it twice gives back the same (role, content)         *)
(* messages.                                                               *)
(***************************************************************************)
C8_Involution ==
    ReverseRoles(ReverseRoles(messages)) = messages

C8_Witness ==
    /\ Len(messages) >= 3
    /\ messages[2].role # messages[1].role
    /\ ReverseRoles(messages) # messages
    /\ ReverseRoles(messages)[1].role = "user"

(***************************************************************************)
(* C9: in the message list passed to an adapter, a message authored by     *)
(* the participant about to respond (the seed counts as participant 1's)   *)
(* has role 'assistant' and a message of the other participant has role    *)
(* 'user'; so the roles alternate and the last message has role 'user'.    *)
(***************************************************************************)
C9_Perspective ==
    \A j \in 1..Len(calls) :
        LET view == calls[j].messages
            me == CallParticipant(calls[j])
        IN  /\ Len(view) >= 1
            /\ Len(view) <= Len(conversation_log)
            /\ \A i \in 1..Len(view) :
                  view[i].role =
                    IF SpeakerParticipant(conversation_log[i].speaker) = me
                    THEN "assistant" ELSE "user"
            /\ \A i \in 1..Len(view) - 1 : view[i].role # view[i + 1].role
            /\ view[Len(view)].role = "user"

C9_Witness ==
    /\ Len(calls) = 4
    /\ [i \in 1..3 |-> calls[3].messages[i].role] =
          <<"user", "assistant", "user">>
    /\ [i \in 1..4 |-> calls[4].messages[i].role] =
          <<"assistant", "user", "assistant", "user">>

(***************************************************************************)
(* C10 as stated: participant 2's response is appended to the working      *)
(* dialogue raw and tagged with the primary-speaker role, the role tag     *)
(* under which the seed message is stored.                                 *)
(***************************************************************************)
C10_Original ==
    \A i \in 2..Len(messages) :
        SpeakerParticipant(conversation_log[i].speaker) = 2 =>
            /\ messages[i].content = conversation_log[i].message
            /\ messages[i].role = messages[1].role

(***************************************************************************)
(* C10 amended: participant 2's response is appended to the working        *)
(* dialogue raw and tagged 'user', the counterpart role, which is the      *)
(* opposite of the role 'assistant' under which the seed message is        *)
(* stored.                                                                 *)
(***************************************************************************)
C10_Amended ==
    /\ Len(messages) = Len(conversation_log)
    /\ Started => messages[1] = [role |-> "assistant",
                                 content |-> initial_prompt]
    /\ \A i \in 2..Len(messages) :
        SpeakerParticipant(conversation_log[i].speaker) = 2 =>
            /\ messages[i].content = conversation_log[i].message
            /\ ~calls[i - 1].outcome.raised =>
                  messages[i].content = calls[i - 1].outcome.text
            /\ messages[i].role = "user"
            /\ messages[i].role # messages[1].role

C10_Witness ==
    /\ pc = "sleep1"
    /\ Len(messages) = 2
    /\ messages[1] = [role |-> "assistant", content |-> "Indeed."]
    /\ messages[2] = [role |-> "user", content |-> "Indeed."]
    /\ conversation_log[2].speaker = "Chatbot 2"

(***************************************************************************)
(* C11: each adapter sees the full prior dialogue: the j-th adapter call   *)
(* of a run receives exactly j messages, whose contents are in order the   *)
(* messages of log records 0..j-1, error strings of failed calls included. *)
(***************************************************************************)
C11_FullPriorDialogue ==
    \A j \in 1..Len(calls) :
        /\ Len(calls[j].messages) = j
        /\ Len(conversation_log) >= j
        /\ \A i \in 1..j :
              calls[j].messages[i].content = conversation_log[i].message

C11_Witness ==
    /\ Len(calls) = 4
    /\ calls[1].outcome.raised
    /\ calls[2].outcome.raised
    /\ Len(calls[4].messages) = 4
    /\ calls[4].messages[1].content = "Hello"
    /\ calls[4].messages[2].content =
          "Error getting response from Chatbot 2: timeout"
    /\ calls[4].messages[3].content =
          "Error getting response from Chatbot 1: timeout"
    /\ calls[4].messages[4].content = "PB2"

(***************************************************************************)
(* C12: when provider2 is omitted at construction, both call sites of      *)
(* every repetition invoke the adapter instance of participant 1; each     *)
(* call still gets the role prompt of the participant whose turn it is     *)
(* (chatbot2_system at the participant-2 step, chatbot1_system at the      *)
(* participant-1 step), and participant 2's view is the role-inverted      *)
(* dialogue as with two distinct adapters.                                 *)
(***************************************************************************)
C12_SelfDialogue ==
    provider2_arg = NoValue =>
        /\ provider2 = provider1
        /\ \A j \in 1..Len(calls) :
            /\ calls[j].provider = provider1
            /\ calls[j].system_prompt =
                  IF j % 2 = 1 THEN chatbot2_system ELSE chatbot1_system
            /\ Len(calls[j].messages) <= Len(messages)
            /\ \A i \in 1..Len(calls[j].messages) :
                  IF j % 2 = 1
                  THEN calls[j].messages[i].role # messages[i].role
                  ELSE calls[j].messages[i].role = messages[i].role

C12_Witness ==
    /\ provider2_arg = NoValue
    /\ Len(calls) = 4
    /\ chatbot1_system = "You are A"
    /\ chatbot2_system = "You are B"
    /\ calls[3].system_prompt = "You are B"
    /\ calls[4].system_prompt = "You are A"
    /\ calls[3].outcome.text = "PA3"
    /\ calls[4].outcome.text = "PA4"
    /\ calls[3].messages[1].role = "user"

(***************************************************************************)
(* C13: the system prompt is never part of the message list: the working   *)
(* dialogue and every view passed to an adapter hold only messages with    *)
(* role 'user' or 'assistant', and no message is a role prompt put there   *)
(* by the engine.                                                          *)
(***************************************************************************)
C13_NoSystemMessage ==
    LET Clean(msgs) ==
            \A i \in 1..Len(msgs) :
                /\ msgs[i].role \in {"user", "assistant"}
                /\ msgs[i].content \notin {chatbot1_system, chatbot2_system}
    IN  /\ Clean(messages)
        /\ \A j \in 1..Len(calls) :
              /\ Clean(calls[j].messages)
              /\ calls[j].system_prompt \in {chatbot1_system, chatbot2_system}

C13_Witness ==
    /\ pc = "return"
    /\ Len(messages) = 5
    /\ Len(calls) = 4
    /\ calls[4].system_prompt = "You are A"
    /\ calls[3].system_prompt = "You are A"
    /\ \A i \in 1..5 : messages[i].role \in {"user", "assistant"}

(***************************************************************************)
(* C14: every adapter call is immediately preceded by exactly one          *)
(* suspension: a suspension step changes neither the calls, the dialogue   *)
(* nor the log, a call step makes no suspension, the suspensions made are  *)
(* as many as the calls made (one more when a call is about to be made),   *)
(* none is made before the seed record, and a run of n turns makes 2n.     *)
(***************************************************************************)
C14_Pacing ==
    /\ [](/\ pc = "idle" => sleeps = 0
          /\ (pc = "sleep2" /\ turn = 0) =>
                (sleeps = 0 /\ Len(conversation_log) = 1)
          /\ pc \in {"sleep2", "sleep1", "return"} => sleeps = Len(calls)
          /\ pc \in {"call2", "call1"} => sleeps = Len(calls) + 1
          /\ pc \in {"return", "done"} => sleeps = 2 * num_turns)
    /\ [][/\ pc \in {"sleep2", "sleep1"} =>
                /\ sleeps' = sleeps + 1
                /\ calls' = calls
                /\ messages' = messages
                /\ conversation_log' = conversation_log
          /\ pc \in {"call2", "call1"} =>
                /\ sleeps' = sleeps
                /\ Len(calls') = Len(calls) + 1]_vars

C14_Witness ==
    /\ pc = "done"
    /\ delay = 0
    /\ num_turns = 2
    /\ sleeps = 4
    /\ Len(calls) = 4

(***************************************************************************)
(* C15: after run_conversation returns, the session's conversation_history *)
(* is exactly the returned sequence of records, in the same order.         *)
(***************************************************************************)
C15_HistoryIsReturned ==
    Finished =>
        /\ conversation_history = returned
        /\ returned = conversation_log

C15_Witness ==
    /\ Finished
    /\ Len(conversation_history) = 5
    /\ conversation_history[1].message = "Hello"
    /\ conversation_history[5].speaker = "Chatbot 1"
    /\ returned = conversation_history

(***************************************************************************)
(* C16: at every step boundary of a run the working dialogue and the log   *)
(* agree on the message count with the seed entry left out: both hold the  *)
(* seed and, beyond it, the same number of entries (one per turn record    *)
(* with a turn index above 0).                                             *)
(***************************************************************************)
C16_CountsAgree ==
    /\ Started => (Len(messages) >= 1 /\ Len(conversation_log) >= 1)
    /\ Len(messages) - 1 = Len(conversation_log) - 1
    /\ Started => Len(messages) - 1 =
          Cardinality({i \in 1..Len(conversation_log) :
                          conversation_log[i].turn > 0})

C16_Witness ==
    /\ pc = "sleep1"
    /\ turn = 1
    /\ Len(messages) = 4
    /\ Len(conversation_log) = 4

(***************************************************************************)
(* C17: the log is append-only during a run: a step leaves it as it is or  *)
(* appends one record at its end, so the log of an earlier point of the    *)
(* run is a prefix of the log of any later point.                          *)
(***************************************************************************)
C17_AppendOnly ==
    [][pc # "done" =>
        /\ Len(conversation_log') \in
              {Len(conversation_log), Len(conversation_log) + 1}
        /\ SubSeq(conversation_log', 1, Len(conversation_log)) =
              conversation_log]_vars

C17_Witness ==
    /\ pc = "return"
    /\ Len(conversation_log) = 5
    /\ conversation_log[1].turn = 0
    /\ conversation_log[2].speaker = "Chatbot 2"
    /\ conversation_log[5].turn = 2

(***************************************************************************)
(* C20: a session holds no cross-run state: when run_conversation is       *)
(* called again on the same session, the dialogue and the log start anew   *)
(* (they hold the new seed only when the loop is entered), the adapters    *)
(* see only messages of the new run, and when the run has returned         *)
(* conversation_history holds the 2n + 1 records of the new run only.      *)
(***************************************************************************)
C20_NoCrossRunState ==
    runs >= 2 =>
        /\ Len(conversation_log) = Len(calls) + 1
        /\ Len(messages) = Len(calls) + 1
        /\ messages[1].content = initial_prompt
        /\ conversation_log[1] = [turn |-> 0,
                                  speaker |-> "Chatbot 1 (Initial)",
                                  message |-> initial_prompt]
        /\ \A j \in 1..Len(calls) :
              /\ Len(calls[j].messages) = j
              /\ \A i \in 1..j :
                    calls[j].messages[i].content = conversation_log[i].message
        /\ pc = "return" => Len(conversation_log) = 2 * num_turns + 1
        /\ pc = "done" =>
              /\ conversation_history = conversation_log
              /\ Len(conversation_history) = 2 * num_turns + 1

C20_Witness ==
    /\ runs = 2
    /\ pc = "done"
    /\ provider2 = "PB"
    /\ initial_prompt = "Indeed."
    /\ num_turns = 1
    /\ call_count["PA"] = 2
    /\ Len(conversation_history) = 3
    /\ conversation_history[1].message = "Indeed."
    /\ conversation_history[3].message = "PA2"

(***************************************************************************)
(* C18: save_conversation writes the file in one shot (what the path held  *)
(* before is replaced, so the file depends on the history only) and, for   *)
(* every retained record in the log's order, one block whose header is a   *)
(* speaker label, the speaker's marker followed by its name, with the      *)
(* record's message below it.                                              *)
(***************************************************************************)
C18_MarkerNameBlocks ==
    file_saved =>
        LET IsHeader(line) == is_speaker_label(Strip(line))
            headers == SelectSeq(SplitLines(file), IsHeader)
        IN  /\ file = FileText(conversation_history)
            /\ Len(headers) = Len(conversation_history)
            /\ \A i \in 1..Len(headers) :
                  extract_speaker_name(Strip(headers[i])) =
                    Chars(conversation_history[i].speaker)

(***************************************************************************)
(* C19: saving a log with save_conversation and reading the file back with *)
(* the transcript reader gives the same number of records in the same      *)
(* order, each with its speaker and its exact message.                     *)
(***************************************************************************)
C19_RoundTrip ==
    (file_saved /\ performed # NoValue /\ performed_file = file) =>
        performed =
            [i \in 1..Len(conversation_history) |->
                [speaker |-> Chars(conversation_history[i].speaker),
                 message |-> Chars(conversation_history[i].message)]]

(***************************************************************************)
(* C29: the turn indices of the log follow a fixed pattern: the seed       *)
(* carries 0 and, for k in 1..n, the record chatbot 2 appended in the k-th *)
(* repetition and the record chatbot 1 appended after it both carry k.     *)
(* The indices never decrease, and in a finished log each of 1..n appears  *)
(* exactly twice, so an index alone does not identify a record.            *)
(***************************************************************************)
C29_TurnPattern ==
    Started =>
        /\ conversation_log[1].turn = 0
        /\ \A k \in 1..num_turns :
            /\ Len(conversation_log) >= 2 * k =>
                /\ conversation_log[2 * k].turn = k
                /\ SpeakerParticipant(conversation_log[2 * k].speaker) = 2
            /\ Len(conversation_log) >= 2 * k + 1 =>
                /\ conversation_log[2 * k + 1].turn = k
                /\ SpeakerParticipant(conversation_log[2 * k + 1].speaker) = 1
        /\ \A i \in 1..(Len(conversation_log) - 1) :
            conversation_log[i].turn <= conversation_log[i + 1].turn
        /\ Finished =>
            /\ Cardinality({i \in 1..Len(returned) : returned[i].turn = 0}) = 1
            /\ \A k \in 1..num_turns :
                Cardinality({i \in 1..Len(returned) : returned[i].turn = k}) = 2

C29_Witness ==
    /\ Finished
    /\ num_turns = 2
    /\ returned[2].turn = 1 /\ returned[3].turn = 1
    /\ returned[4].turn = 2 /\ returned[5].turn = 2
    /\ returned[2].speaker # returned[3].speaker

(***************************************************************************)
(* C26: the error string of a failed adapter call is appended to the       *)
(* working dialogue like any response, with the role tag of the            *)
(* participant whose call failed ('user' for chatbot 2, 'assistant' for    *)
(* chatbot 1), and every later adapter call of the run gets it at that     *)
(* position of its message list (with the tag as stored for chatbot 1,     *)
(* inverted for chatbot 2).                                                *)
(***************************************************************************)
C26_ErrorInDialogue ==
    \A j \in 1..Len(calls) :
        calls[j].outcome.raised =>
            LET error == "Error getting response from "
                           \o calls[j].chatbot_name \o ": "
                           \o calls[j].outcome.text
                tag == IF CallParticipant(calls[j]) = 2 THEN "user"
                       ELSE "assistant"
                other == IF tag = "user" THEN "assistant" ELSE "user"
            IN  /\ Len(messages) >= j + 1
                /\ messages[j + 1] = [role |-> tag, content |-> error]
                /\ \A k \in (j + 1)..Len(calls) :
                    /\ Len(calls[k].messages) >= j + 1
                    /\ calls[k].messages[j + 1].content = error
                    /\ calls[k].messages[j + 1].role =
                         IF CallParticipant(calls[k]) = 1 THEN tag ELSE other

C26_Witness ==
    /\ Len(calls) = 4
    /\ calls[1].outcome.raised
    /\ calls[2].outcome.raised
    /\ ~calls[3].outcome.raised
    /\ calls[3].messages[2] =
         [role |-> "assistant",
          content |-> "Error getting response from Chatbot 2: timeout"]
    /\ calls[4].messages[3] =
         [role |-> "assistant",
          content |-> "Error getting response from Chatbot 1: timeout"]
    /\ calls[4].messages[2].role = "user"

(***************************************************************************)
(* C27: the log and the working dialogue of a run are a function of        *)
(* initial_prompt, num_turns and what the adapter calls gave: in every     *)
(* state of a run they equal the value computed from those alone, so two   *)
(* runs that differ only in delay or verbose, with the adapters answering  *)
(* alike, have the same log and the same dialogue.                         *)
(***************************************************************************)
C27_DelayVerboseIrrelevant ==
    Started =>
        LET answer(j) ==
                IF calls[j].outcome.raised
                THEN "Error getting response from "
                       \o (IF j % 2 = 1 THEN "Chatbot 2" ELSE "Chatbot 1")
                       \o ": " \o calls[j].outcome.text
                ELSE calls[j].outcome.text
            log == [i \in 1..(Len(calls) + 1) |->
                      IF i = 1
                      THEN [turn |-> 0, speaker |-> "Chatbot 1 (Initial)",
                            message |-> initial_prompt]
                      ELSE [turn |-> i \div 2,
                            speaker |-> IF i % 2 = 0 THEN "Chatbot 2"
                                        ELSE "Chatbot 1",
                            message |-> answer(i - 1)]]
            dialogue == [i \in 1..(Len(calls) + 1) |->
                           [role |-> IF i % 2 = 0 THEN "user"
                                     ELSE "assistant",
                            content |-> IF i = 1 THEN initial_prompt
                                        ELSE answer(i - 1)]]
        IN  /\ conversation_log = log
            /\ messages = dialogue
            /\ Len(calls) <= 2 * num_turns
            /\ Finished => (returned = log /\ Len(calls) = 2 * num_turns)

C27_Witness ==
    /\ Finished
    /\ delay = 0
    /\ verbose
    /\ num_turns = 1
    /\ sleeps = 2
    /\ returned[2].message = "PB1"
    /\ returned[3].message = "PA1"
    /\ Len(messages) = 3

(***************************************************************************)
(* C25: a run whose adapter calls all return or raise ends: it reaches its *)
(* return, after exactly 2n adapter calls.  A run with a call that never   *)
(* returns stays in that call for ever: the call's record is not appended, *)
(* no further call is made on either adapter, nothing is returned and      *)
(* conversation_history keeps its value.                                   *)
(***************************************************************************)
C25_TerminatesOrStalls ==
    /\ Started ~> (Finished \/ pc = "hung")
    /\ [](Finished =>
            /\ Len(calls) = 2 * num_turns
            /\ returned = conversation_log
            /\ \A j \in 1..Len(calls) : calls[j].outcome # NeverReturns)
    /\ [](pc = "hung" =>
            /\ calls[Len(calls)].outcome = NeverReturns
            /\ Len(conversation_log) = Len(calls)
            /\ returned = NoValue)
    /\ [][pc = "hung" =>
            /\ pc' = "hung"
            /\ UNCHANGED <<conversation_log, messages, calls, call_count,
                           returned, conversation_history>>]_vars

C25_Witness ==
    /\ pc = "hung"
    /\ num_turns = 2
    /\ Len(calls) = 4
    /\ calls[4].outcome = NeverReturns
    /\ calls[4].chatbot_name = "Chatbot 1"
    /\ Len(conversation_log) = 4
    /\ returned = NoValue
    /\ conversation_history = <<>>

(***************************************************************************)
(* C28: conversation_history is assigned only where a run returns: it is   *)
(* empty before the first run, every other step of a run leaves it alone,  *)
(* and so does a run that is aborted by an error raised by the pause, so   *)
(* it always holds the log of the last run that returned (or nothing),     *)
(* never a partial log.                                                    *)
(***************************************************************************)
C28_HistoryOnlyAtReturn ==
    /\ [](runs = 0 => conversation_history = <<>>)
    /\ [](conversation_history =
            IF returned = NoValue THEN <<>> ELSE returned)
    /\ [][conversation_history' # conversation_history =>
            /\ pc = "return"
            /\ pc' = "done"
            /\ conversation_history' = conversation_log
            /\ Len(conversation_log) = 2 * num_turns + 1]_vars

C28_Witness ==
    /\ pc = "aborted"
    /\ runs = 2
    /\ num_turns = 1
    /\ Len(conversation_log) = 2
    /\ Len(conversation_history) = 3
    /\ conversation_history = returned
    /\ conversation_history[1].message # conversation_log[1].message

(***************************************************************************)
(* C21: only run_conversation changes the session's state: a call of       *)
(* get_chatbot_response or of save_conversation between runs, whether it   *)
(* succeeds or fails, leaves conversation_history, the working dialogue,   *)
(* the log and both adapter references as they were.                       *)
(***************************************************************************)
C21_OnlyRunMutates ==
    [][(pc \in {"idle", "done"} /\ pc' = pc) =>
          UNCHANGED <<conversation_history, messages, conversation_log,
                      provider1, provider2>>]_vars

C21_Witness ==
    /\ pc = "done"
    /\ num_turns = 1
    /\ Len(calls) = 3
    /\ calls[3].outcome.raised
    /\ ~file_saved
    /\ file # NoValue
    /\ Len(file) = 0
    /\ Len(conversation_history) = 3
    /\ conversation_history = returned
    /\ Len(messages) = 3

(***************************************************************************)
(* C22: every adapter class sends the temperature and the max-token value  *)
(* given by one precedence: the argument of the get_response call if       *)
(* passed, else the constructor's argument, else the provider's            *)
(* environment variable, else DEFAULT_TEMPERATURE / DEFAULT_MAX_TOKENS,    *)
(* else 0.7 / 500.                                                         *)
(***************************************************************************)
C22_Precedence ==
    request # Nothing =>
        LET prefix == EnvPrefix(adapter_object.variant)
            FirstGiven(values) ==
                values[CHOOSE i \in 1..Len(values) :
                          /\ values[i] # NotGiven
                          /\ \A j \in 1..(i - 1) : values[j] = NotGiven]
            Tenths(s) == IF s = NoValue THEN NotGiven ELSE ParseFloat(s)
            Number(s) == IF s = NoValue THEN NotGiven ELSE ParseInt(s)
        IN  /\ request.temperature =
                 FirstGiven(<<request.temperature_arg,
                              adapter_object.temperature_arg,
                              Tenths(environ[prefix \o "_TEMPERATURE"]),
                              Tenths(environ["DEFAULT_TEMPERATURE"]),
                              7>>)
            /\ request.max_tokens =
                 FirstGiven(<<request.max_tokens_arg,
                              adapter_object.max_tokens_arg,
                              Number(environ[prefix \o "_MAX_TOKENS"]),
                              Number(environ["DEFAULT_MAX_TOKENS"]),
                              500>>)

(***************************************************************************)
(* C23: constructing an adapter of a class that needs credentials raises   *)
(* ValueError exactly when neither the api_key argument nor the provider's *)
(* environment variable gives a non-empty key; an adapter object of such a *)
(* class always holds a key, so every get_response call is made on an      *)
(* adapter with a key.                                                     *)
(***************************************************************************)
C23_KeyAtConstruction ==
    /\ adapter_object # Nothing =>
          /\ adapter_error = Nothing
          /\ RequiresKey(adapter_object.variant) =>
                /\ adapter_object.api_key \notin {NoValue, ""}
                /\ adapter_object.api_key \in
                     { adapter_object.api_key_arg,
                       environ[EnvPrefix(adapter_object.variant)
                                 \o "_API_KEY"] }
    /\ adapter_error # Nothing =>
          /\ adapter_object = Nothing
          /\ request = Nothing
          /\ adapter_error.type = "ValueError"
          /\ RequiresKey(adapter_error.variant)
          /\ adapter_error.api_key_arg \in {NoValue, ""}
          /\ environ[EnvPrefix(adapter_error.variant) \o "_API_KEY"]
               \in {NoValue, ""}
    /\ request # Nothing =>
          /\ adapter_object # Nothing
          /\ RequiresKey(adapter_object.variant) =>
                adapter_object.api_key \notin {NoValue, ""}

C23_Witness ==
    /\ adapter_error # Nothing
    /\ adapter_error.variant = "providers.GoogleProvider"
    /\ adapter_error.api_key_arg = ""
    /\ environ["GEMINI_API_KEY"] = ""
    /\ environ["DEFAULT_TEMPERATURE"] = "0.2"
    /\ adapter_object = Nothing

(***************************************************************************)
(* C24: when the backend's response has no usable text, the Google         *)
(* adapter's get_response does not raise but returns a placeholder: the    *)
(* safety-filter note when the prompt feedback has a block reason, else    *)
(* for a response with a candidate the partial text with the               *)
(* incompleteness note when there is partial text and the blocked note     *)
(* with the finish reason when there is none, else the generic error       *)
(* note; this for every combination of feedback, candidates and parts.     *)
(***************************************************************************)
C24_PlaceholderNotRaise ==
    (reply # Nothing /\ reply.response.text = NoValue) =>
        LET response == reply.response
            blocked == response.prompt_feedback
                         \in {"SAFETY", "BLOCK_REASON_UNSPECIFIED"}
            candidate == response.candidates[1]
            readable == candidate.has_content
                        /\ \A i \in 1..Len(candidate.parts) :
                              ~candidate.parts[i].raises
            partial == \E i \in 1..Len(candidate.parts) :
                          /\ candidate.parts[i].has_text
                          /\ candidate.parts[i].text # ""
            reason == IF candidate.finish_reason = 2
                      THEN "SAFETY - content filtered"
                      ELSE IF candidate.finish_reason = 4
                      THEN "MAX_TOKENS - reached token limit"
                      ELSE ReasonText(candidate.finish_reason)
        IN  /\ ~reply.raised
            /\ reply.text # ""
            /\ blocked =>
                 reply.text = "[Response blocked by safety filter: "
                                \o response.prompt_feedback \o "]"
            /\ (~blocked /\ response.candidates = <<>>) =>
                 reply.text = "[Error generating response: "
                                \o NoTextError \o "]"
            /\ (~blocked /\ response.candidates # <<>>
                  /\ ~(readable /\ partial)) =>
                 reply.text = "[Response blocked - " \o reason \o "]"
            /\ (~blocked /\ response.candidates # <<>>
                  /\ readable /\ partial) =>
                 reply.text =
                   JoinParts(candidate.parts)
                     \o "\n\n[Response may be incomplete - finish reason: "
                     \o reason \o "]"

C24_Witness ==
    /\ reply # Nothing
    /\ reply.response.text = NoValue
    /\ reply.response.prompt_feedback = "no block_reason"
    /\ Len(reply.response.candidates) = 1
    /\ reply.response.candidates[1].finish_reason = 4
    /\ ~reply.raised
    /\ reply.text =
         "ParPar\n\n[Response may be incomplete - finish reason: MAX_TOKENS - reached token limit]"

(***************************************************************************)
(* C30: in a playback every block's voice is fixed by its speaker: a       *)
(* speaker the configured map lists gets the configured voice and takes no *)
(* dynamic slot; any other speaker gets the voice of AVAILABLE_VOICES at   *)
(* its rank among the unlisted speakers in order of first appearance,      *)
(* wrapping round after the last voice, in its first block and in every    *)
(* later one.                                                              *)
(***************************************************************************)
C30_StableVoices ==
    LET Rank(speaker) ==
            CHOOSE i \in 1..Len(first_seen) : first_seen[i] = speaker
        RoundRobin(i) ==
            AVAILABLE_VOICES[((i - 1) % Len(AVAILABLE_VOICES)) + 1]
    IN  /\ next_voice_index = Len(first_seen)
        /\ DOMAIN dynamic_voice_map =
             {first_seen[i] : i \in 1..Len(first_seen)}
        /\ DOMAIN dynamic_voice_map \cap DOMAIN config_voice_map = {}
        /\ \A i \in 1..Len(first_seen) :
             dynamic_voice_map[first_seen[i]] = RoundRobin(i)
        /\ voiced # Nothing =>
             voiced.voice =
               IF voiced.speaker \in DOMAIN config_voice_map
               THEN config_voice_map[voiced.speaker]
               ELSE RoundRobin(Rank(voiced.speaker))

C30_Witness ==
    /\ voiced # Nothing
    /\ "Ann" \in DOMAIN config_voice_map
    /\ Len(first_seen) = 14
    /\ first_seen[14] = "Bob"
    /\ dynamic_voice_map["Bob"] = "alloy"
    /\ voiced.speaker = "Speaker 2"
    /\ voiced.voice = "echo"

====
